---- MODULE Spec2Model ----
(***************************************************************************)
(* A model of jetbrains.py: the command-line tool that queries the         *)
(* JetBrains release-metadata API and prints a version/build, downloads    *)
(* and validates an installer, prints download/checksum URLs, or renders   *)
(* a "What's New" page.                                                    *)
(*                                                                         *)
(* Python values are records tagged by "kind"; Python str is a TLA+        *)
(* string, bytes is a sequence of integers 0..255.                         *)
(***************************************************************************)
EXTENDS Integers, Sequences, FiniteSets, TLC

VARIABLES
    \* the run of the script
    pc,         \* where the run is
    args,       \* vars(args): what parse_args() returned
    latest,     \* the module-level variable latest
    m,          \* the local variables of main
    d,          \* the local variables of download, read or validate, whichever runs
    fs,         \* the files on disk: path -> bytes
    open,       \* the file handles and connections that are open
    reqs,       \* the URLs requested, in the order urlopen was called
    stdout, stderr,
    rc,         \* what main returned
    uncaught,   \* the exception that ended the run, if one did
    net,        \* the remote side: the metadata document and the body of each URL
    \* get_item, called on its own
    gi_obj, gi_keys, gi_default, gi_result,
    \* generate_whatsnew, called on its own
    wn_name, wn_releases, wn_out

runVars == <<pc, args, latest, m, d, fs, open, reqs, stdout, stderr, rc, uncaught, net>>
giVars == <<gi_obj, gi_keys, gi_default, gi_result>>
wnVars == <<wn_name, wn_releases, wn_out>>
vars == <<runVars, giVars, wnVars>>

(***************************************************************************)
(* Python values                                                           *)
(***************************************************************************)
VNone == [kind |-> "none"]
VBool(b) == [kind |-> "bool", b |-> b]
VInt(n) == [kind |-> "int", n |-> n]
VStr(s) == [kind |-> "str", s |-> s]
VList(q) == [kind |-> "list", l |-> q]
VDict(f) == [kind |-> "dict", d |-> f]

\* bool(v)
Truthy(v) ==
    CASE v.kind = "none" -> FALSE
      [] v.kind = "bool" -> v.b
      [] v.kind = "int" -> v.n /= 0
      [] v.kind = "str" -> v.s /= ""
      [] v.kind = "list" -> Len(v.l) > 0
      [] v.kind = "dict" -> DOMAIN v.d /= {}

\* The outcome of an evaluation: a value returned or an exception raised.
Return(v) == [tag |-> "return", val |-> v]
Raise(e) == [tag |-> "raise", exc |-> e]

\* The no-default sentinel of get_item.
RaiseException == [kind |-> "RaiseException"]

\* isinstance(obj, (Mapping, Sequence)): dict, list and str qualify.
IsMappingOrSequence(obj) == obj.kind \in {"dict", "list", "str"}

\* current[key]
Subscript(current, key) ==
    CASE current.kind = "dict" ->
            IF key.kind = "str" /\ key.s \in DOMAIN current.d
            THEN Return(current.d[key.s])
            ELSE Raise("KeyError")
      [] current.kind = "list" ->
            IF key.kind /= "int" THEN Raise("TypeError")
            ELSE IF key.n >= 0 /\ key.n < Len(current.l)
                 THEN Return(current.l[key.n + 1])
            ELSE IF key.n < 0 /\ -key.n <= Len(current.l)
                 THEN Return(current.l[Len(current.l) + key.n + 1])
            ELSE Raise("IndexError")
      [] current.kind = "str" ->
            IF key.kind /= "int" THEN Raise("TypeError")
            ELSE IF key.n >= 0 /\ key.n < Len(current.s)
                 THEN Return(VStr(SubSeq(current.s, key.n + 1, key.n + 1)))
            ELSE IF key.n < 0 /\ -key.n <= Len(current.s)
                 THEN Return(VStr(SubSeq(current.s, Len(current.s) + key.n + 1,
                                         Len(current.s) + key.n + 1)))
            ELSE Raise("IndexError")
      [] OTHER -> Raise("TypeError")

\* The except clause of get_item's loop: KeyError and IndexError are caught,
\* and answered by the default unless the default is the sentinel.
GetItemExceptNoneRaises(exc, default) ==
    IF exc \in {"KeyError", "IndexError"} /\ default /= RaiseException
       /\ default /= VNone
    THEN Return(default)
    ELSE Raise(exc)

GetItemExcept(exc, default) ==
    IF exc \in {"KeyError", "IndexError"} /\ default /= RaiseException
    THEN Return(default)
    ELSE Raise(exc)

\* The while loop of get_item: one key per turn.
RECURSIVE GetItemLoop(_, _, _)
GetItemLoop(current, keys, default) ==
    IF keys = <<>> THEN Return(current)
    ELSE LET r == Subscript(current, Head(keys))
         IN  IF r.tag = "raise" THEN GetItemExcept(r.exc, default)
             ELSE GetItemLoop(r.val, Tail(keys), default)

GetItem(obj, keys, default) ==
    IF ~IsMappingOrSequence(obj) THEN Raise("TypeError")
    ELSE GetItemLoop(obj, keys, default)

\* The variables of a function that is not being exercised stay at rest.
IdleRun ==
    /\ pc = "idle"
    /\ args = <<>>
    /\ latest = FALSE
    /\ m = <<>>
    /\ d = <<>>
    /\ fs = <<>>
    /\ open = {}
    /\ reqs = <<>>
    /\ stdout = <<>>
    /\ stderr = <<>>
    /\ rc = [kind |-> "none"]
    /\ uncaught = ""
    /\ net = <<>>

IdleWhatsnew ==
    /\ wn_name = VNone
    /\ wn_releases = <<>>
    /\ wn_out = [tag |-> "pending"]

(***************************************************************************)
(* get_item on its own: the inputs are drawn in Init, one action calls it. *)
(***************************************************************************)
MaxPath == 3

Pending == [tag |-> "pending"]

GiRoots ==
    { VDict([k \in {"a", "b", "n", "z"} |->
                CASE k = "a" -> VDict([j \in {"a", "b"} |->
                                         IF j = "a" THEN VStr("leaf") ELSE VNone])
                  [] k = "b" -> VList(<<VStr("x"), VList(<<VInt(7)>>)>>)
                  [] k = "n" -> VInt(5)
                  [] k = "z" -> VNone]),
      VList(<<VDict([k \in {"a"} |-> VStr("v")]), VList(<<VInt(1), VInt(2)>>), VStr("xy")>>),
      VDict([k \in {} |-> VNone]),
      VList(<<>>),
      VStr("ab"),
      VInt(3) }

GiKeys == {VStr("a"), VStr("b"), VStr("n"), VStr("zz"), VInt(0), VInt(1), VInt(-1), VInt(2)}

GiPaths == UNION {[1..n -> GiKeys] : n \in 0..MaxPath}

GiDefaults == {RaiseException, VNone, VStr("dflt")}

IdleGetItem ==
    /\ gi_obj = VNone
    /\ gi_keys = <<>>
    /\ gi_default = RaiseException
    /\ gi_result = Pending

InitGetItem ==
    /\ IdleRun
    /\ IdleWhatsnew
    /\ gi_obj \in GiRoots
    /\ gi_keys \in GiPaths
    /\ gi_default \in GiDefaults
    /\ gi_result = Pending

CallGetItem ==
    /\ gi_result = Pending
    /\ gi_result' = GetItem(gi_obj, gi_keys, gi_default)
    /\ UNCHANGED <<gi_obj, gi_keys, gi_default, runVars, wnVars>>

NextGetItem == CallGetItem

SpecGetItem == InitGetItem /\ [][NextGetItem]_vars

(***************************************************************************)
(* Strings and templates                                                   *)
(***************************************************************************)
\* The characters str.strip() and str.split() treat as whitespace (those a
\* TLA+ string can spell).
PyWhitespace == {" ", "\t", "\n", "\r", "\f"}

RECURSIVE LStrip(_)
LStrip(s) == IF s /= "" /\ Head(s) \in PyWhitespace THEN LStrip(Tail(s)) ELSE s

RECURSIVE RStrip(_)
RStrip(s) ==
    IF s /= "" /\ SubSeq(s, Len(s), Len(s)) \in PyWhitespace
    THEN RStrip(SubSeq(s, 1, Len(s) - 1))
    ELSE s

\* s.strip()
Strip(s) == RStrip(LStrip(s))

Digits == "0123456789"

RECURSIVE NatToStr(_)
NatToStr(n) ==
    IF n < 10 THEN SubSeq(Digits, n + 1, n + 1)
    ELSE NatToStr(n \div 10) \o SubSeq(Digits, (n % 10) + 1, (n % 10) + 1)

\* str(v), for the values a template is given
PyStr(v) ==
    CASE v.kind = "none" -> "None"
      [] v.kind = "str" -> v.s
      [] v.kind = "bool" -> IF v.b THEN "True" ELSE "False"
      [] v.kind = "int" -> IF v.n < 0 THEN "-" \o NatToStr(-v.n) ELSE NatToStr(v.n)

Lit(s) == [t |-> "lit", s |-> s]
Var(s) == [t |-> "var", s |-> s]

\* string.Template(...).substitute(**mapping): every $name is replaced by
\* str(mapping[name]); a name the mapping lacks raises KeyError.
RECURSIVE SubstituteFrom(_, _, _)
SubstituteFrom(template, mapping, i) ==
    IF i > Len(template) THEN ""
    ELSE (IF template[i].t = "lit" THEN template[i].s ELSE PyStr(mapping[template[i].s]))
         \o SubstituteFrom(template, mapping, i + 1)

Substitute(template, mapping) ==
    IF \E i \in 1..Len(template) : template[i].t = "var" /\ template[i].s \notin DOMAIN mapping
    THEN Raise("KeyError")
    ELSE Return(VStr(SubstituteFrom(template, mapping, 1)))

WHATSNEW_MAIN_TEMPLATE ==
    << Lit("<!DOCTYPE html><html lang=\"en\">\n<head>\n<meta charset=\"utf-8\">\n<meta name=\"viewport\" content=\"width=device-width, initial-scale=1.0\">\n<title>"),
       Var("product"),
       Lit(" - What's New</title>\n<style>\narticle header { margin-bottom: 1em; }\narticle header h2 { margin-bottom: 0; }\narticle:not(:last-child) { padding: 1em 0; border-bottom: 1px solid #ddd; }\narticle section { margin-bottom: 1em; }\n\n.subtitle { font-size: 0.9em; color: #666; margin-top: 0; }\n</style>\n<body>\n<h1>What's New in "),
       Var("product"),
       Lit("</h1>\n"),
       Var("content"),
       Lit("\n</body>\n</html>\n") >>

WHATSNEW_ENTRY_TEMPLATE ==
    << Lit("<article>\n<header>\n<h2 id=\""), Var("version"), Lit("\">"), Var("version"),
       Lit(" ("), Var("build"), Lit(")</h2>\n<span class=\"subtitle\">"), Var("date"),
       Lit("</span>\n</header>\n<section>\n"), Var("whatsnew"),
       Lit("\n</section>\n<footer>\n<a href=\""), Var("notesLink"),
       Lit("\">Release Notes</a></div>\n</footer>\n</article>\n") >>

WHATSNEW_EMPTY_NOTES == "No information provided."

(***************************************************************************)
(* Text, bytes and URLs                                                    *)
(***************************************************************************)
LowerLetters == "abcdefghijklmnopqrstuvwxyz"
UpperLetters == "ABCDEFGHIJKLMNOPQRSTUVWXYZ"

\* The characters of code points 32..95 and 97..126, in order (a TLA+ string
\* cannot spell code point 96, which no text of the model holds).
PrintableLow == " !\"#$%&'()*+,-./0123456789:;<=>?@" \o UpperLetters \o "[\\]^_"
PrintableHigh == LowerLetters \o "{|}~"

\* The position of the one-character string c in table, 0 when it is not there.
IndexIn(table, c) ==
    LET at == {i \in 1..Len(table) : SubSeq(table, i, i) = c}
    IN  IF at = {} THEN 0 ELSE CHOOSE i \in at : TRUE

UpperChar(c) ==
    LET i == IndexIn(LowerLetters, c) IN IF i = 0 THEN c ELSE SubSeq(UpperLetters, i, i)

RECURSIVE UpperRange(_, _, _)
UpperRange(s, lo, hi) ==
    IF lo > hi THEN ""
    ELSE IF lo = hi THEN UpperChar(SubSeq(s, lo, lo))
    ELSE LET mid == (lo + hi) \div 2
         IN  UpperRange(s, lo, mid) \o UpperRange(s, mid + 1, hi)

\* s.upper()
Upper(s) == UpperRange(s, 1, Len(s))

\* ord(c) of a character of an encoded text
Ord(c) ==
    CASE c = "\t" -> 9 [] c = "\n" -> 10 [] c = "\f" -> 12 [] c = "\r" -> 13
      [] IndexIn(PrintableLow, c) /= 0 -> IndexIn(PrintableLow, c) + 31
      [] OTHER -> IndexIn(PrintableHigh, c) + 96

\* chr(b) of a byte below 128
Chr(b) ==
    CASE b = 9 -> "\t" [] b = 10 -> "\n" [] b = 12 -> "\f" [] b = 13 -> "\r"
      [] b <= 95 -> SubSeq(PrintableLow, b - 31, b - 31)
      [] OTHER -> SubSeq(PrintableHigh, b - 96, b - 96)

\* text.encode(), for text of the characters above
RECURSIVE EncodeRange(_, _, _)
EncodeRange(s, lo, hi) ==
    IF lo > hi THEN <<>>
    ELSE IF lo = hi THEN <<Ord(SubSeq(s, lo, lo))>>
    ELSE LET mid == (lo + hi) \div 2
         IN  EncodeRange(s, lo, mid) \o EncodeRange(s, mid + 1, hi)

Encode(s) == EncodeRange(s, 1, Len(s))

RECURSIVE DecodeRange(_, _, _)
DecodeRange(b, lo, hi) ==
    IF lo > hi THEN ""
    ELSE IF lo = hi THEN Chr(b[lo])
    ELSE LET mid == (lo + hi) \div 2
         IN  DecodeRange(b, lo, mid) \o DecodeRange(b, mid + 1, hi)

\* data.decode(): UTF-8. A byte of 128 or more that starts no valid sequence
\* (the bodies of the model hold no valid multi-byte sequence) is an error.
Decode(b) ==
    IF \E i \in 1..Len(b) : b[i] >= 128 THEN Raise("UnicodeDecodeError")
    ELSE Return(DecodeRange(b, 1, Len(b)))

\* s.split()[0]: the first whitespace-separated token; none raises IndexError.
FirstToken(s) ==
    LET t == LStrip(s)
        ws == {i \in 1..Len(t) : SubSeq(t, i, i) \in PyWhitespace}
    IN  IF t = "" THEN Raise("IndexError")
        ELSE IF ws = {} THEN Return(t)
        ELSE Return(SubSeq(t, 1, (CHOOSE i \in ws : \A j \in ws : i <= j) - 1))

HexDigits == "0123456789abcdef"

HexByte(b) == SubSeq(HexDigits, (b \div 16) + 1, (b \div 16) + 1)
              \o SubSeq(HexDigits, (b % 16) + 1, (b % 16) + 1)

RECURSIVE HexRange(_, _, _)
HexRange(b, lo, hi) ==
    IF lo > hi THEN ""
    ELSE IF lo = hi THEN HexByte(b[lo])
    ELSE LET mid == (lo + hi) \div 2
         IN  HexRange(b, lo, mid) \o HexRange(b, mid + 1, hi)

\* hashlib.sha256: the digest is taken to be collision-free, so the state of
\* the hash is the bytes fed to it so far and hexdigest() is a one-to-one,
\* lower-case hexadecimal function of them.
Sha256New == <<>>
Sha256Update(h, data) == h \o data
Sha256HexDigest(h) == HexRange(h, 1, Len(h))

\* urllib.parse.quote_plus of one character
QuotePlusChar(c) ==
    IF IndexIn(LowerLetters \o UpperLetters \o Digits \o "_.-~", c) /= 0 THEN c
    ELSE IF c = " " THEN "+"
    ELSE "%" \o Upper(HexByte(Ord(c)))

RECURSIVE QuotePlusRange(_, _, _)
QuotePlusRange(s, lo, hi) ==
    IF lo > hi THEN ""
    ELSE IF lo = hi THEN QuotePlusChar(SubSeq(s, lo, lo))
    ELSE LET mid == (lo + hi) \div 2
         IN  QuotePlusRange(s, lo, mid) \o QuotePlusRange(s, mid + 1, hi)

QuotePlus(s) == QuotePlusRange(s, 1, Len(s))

\* urllib.parse.urlencode(dict(code=..., type=..., latest=...))
UrlEncode(code, type, latestParam) ==
    "code=" \o QuotePlus(code) \o "&type=" \o QuotePlus(type) \o "&latest=" \o QuotePlus(latestParam)

JETBRAINS_BASE_URL == "https://data.services.jetbrains.com/products/releases"

\* The text of s before the first occurrence of the character c.
Before(s, c) ==
    LET at == {i \in 1..Len(s) : SubSeq(s, i, i) = c}
    IN  IF at = {} THEN s ELSE SubSeq(s, 1, (CHOOSE i \in at : \A j \in at : i <= j) - 1)

\* The text of s after the last occurrence of the character c.
AfterLast(s, c) ==
    LET at == {i \in 1..Len(s) : SubSeq(s, i, i) = c}
    IN  IF at = {} THEN s ELSE SubSeq(s, (CHOOSE i \in at : \A j \in at : i >= j) + 1, Len(s))

\* urllib.parse.urlparse(url).path, for a URL of the form scheme://host/path
UrlPath(url) ==
    LET noFragment == Before(url, "#")
        noQuery == Before(noFragment, "?")
        sep == {i \in 1..Len(noQuery) - 2 : SubSeq(noQuery, i, i + 2) = "://"}
        afterScheme == IF sep = {} THEN noQuery
                       ELSE SubSeq(noQuery, (CHOOSE i \in sep : \A j \in sep : i <= j) + 3,
                                   Len(noQuery))
        slashes == {i \in 1..Len(afterScheme) : SubSeq(afterScheme, i, i) = "/"}
        path == IF slashes = {} THEN ""
                ELSE SubSeq(afterScheme, CHOOSE i \in slashes : \A j \in slashes : i <= j,
                            Len(afterScheme))
        \* the parameters of the last segment are not part of the path
        lastSegment == AfterLast(path, "/")
    IN  SubSeq(path, 1, Len(path) - Len(lastSegment)) \o Before(lastSegment, ";")

\* get_url_filename(url)
GetUrlFilename(url) == AfterLast(UrlPath(url), "/")

\* os.path.join(destination, filename), filename holding no "/"
PathJoin(destination, filename) ==
    IF destination = "" THEN filename
    ELSE IF SubSeq(destination, Len(destination), Len(destination)) = "/"
         THEN destination \o filename
    ELSE destination \o "/" \o filename

(***************************************************************************)
(* generate_whatsnew                                                       *)
(***************************************************************************)
\* release.get(key)
DictGet(release, key, default) ==
    IF key \in DOMAIN release.d THEN release.d[key] ELSE default

\* release[key] = value
DictSet(release, key, value) ==
    VDict([k \in DOMAIN release.d \cup {key} |-> IF k = key THEN value ELSE release.d[k]])

\* The test that decides the placeholder.
WnNotesMissingNoStrip(whatsnew) == whatsnew = VNone \/ whatsnew.s = ""

WnNotesMissing(whatsnew) == whatsnew = VNone \/ Strip(whatsnew.s) = ""

\* One turn of the for loop: the entry rendered for one release.
WnEntry(release) ==
    LET whatsnew == DictGet(release, "whatsnew", VNone) IN
    IF whatsnew /= VNone /\ whatsnew.kind /= "str" THEN Raise("AttributeError")
    ELSE Substitute(WHATSNEW_ENTRY_TEMPLATE,
                    (IF WnNotesMissing(whatsnew)
                     THEN DictSet(release, "whatsnew", VStr(WHATSNEW_EMPTY_NOTES))
                     ELSE release).d)

\* entries, then ''.join(entries); the first failing entry's exception ends it.
RECURSIVE WnEntries(_, _)
WnEntries(releases, i) ==
    IF i > Len(releases) THEN Return(VStr(""))
    ELSE LET e == WnEntry(releases[i]) IN
         IF e.tag = "raise" THEN e
         ELSE LET rest == WnEntries(releases, i + 1) IN
              IF rest.tag = "raise" THEN rest
              ELSE Return(VStr(e.val.s \o rest.val.s))

GenerateWhatsnew(name, releases) ==
    LET entries == WnEntries(releases, 1) IN
    IF entries.tag = "raise" THEN entries
    ELSE Substitute(WHATSNEW_MAIN_TEMPLATE,
                    [k \in {"product", "content"} |->
                        IF k = "product" THEN name ELSE entries.val])

(***************************************************************************)
(* generate_whatsnew on its own                                            *)
(***************************************************************************)
MaxWnReleases == 2

\* A release record as the API gives it, with the given notes ("absent": no
\* whatsnew key at all).
WnRelease(version, build, notes) ==
    VDict([k \in {"version", "build", "date", "notesLink"}
                 \cup (IF notes = "absent" THEN {} ELSE {"whatsnew"}) |->
              CASE k = "version" -> VStr(version)
                [] k = "build" -> VStr(build)
                [] k = "date" -> VStr("2023-07-26")
                [] k = "notesLink" -> VStr("https://example.org/notes/" \o version)
                [] k = "whatsnew" -> IF notes = "null" THEN VNone ELSE VStr(notes)])

WnReleaseSet ==
    { WnRelease("2023.1", "231.8", "absent"),
      WnRelease("2023.2", "232.9", "<p>Fixes</p>"),
      WnRelease("2023.3", "233.1", " \n\t"),
      WnRelease("2023.4", "234.2", "null"),
      WnRelease("2023.5", "235.3", ""),
      WnRelease("2023.6", "236.4", "  <b>padded</b> \n"),
      \* no notesLink: the entry template cannot be filled
      VDict([k \in {"version", "build", "date"} |-> VStr("2023.7")]) }

InitWhatsnew ==
    /\ IdleRun
    /\ IdleGetItem
    /\ wn_name \in {VStr("IDEA"), VNone}
    /\ wn_releases \in UNION {[1..n -> WnReleaseSet] : n \in 0..MaxWnReleases}
    /\ wn_out = Pending

CallGenerateWhatsnew ==
    /\ wn_out = Pending
    /\ wn_out' = GenerateWhatsnew(wn_name, wn_releases)
    /\ UNCHANGED <<wn_name, wn_releases, runVars, giVars>>

NextWhatsnew == CallGenerateWhatsnew

SpecWhatsnew == InitWhatsnew /\ [][NextWhatsnew]_vars

(***************************************************************************)
(* The run of the script: the __main__ block, then main                    *)
(***************************************************************************)
SelectCommands == {"download", "download_url", "checksum", "checksum_url"}

\* The parameters main names; every other key of vars(args) lands in kwargs.
MainParams == {"command", "code", "name", "version", "build", "latest"}

ChunkSize == 1024

EmptyMap == [k \in {} |-> VNone]

\* mapping.get(key, default) of a plain mapping (vars(args), kwargs)
MapGet(mapping, key, default) == IF key \in DOMAIN mapping THEN mapping[key] ELSE default

\* The locals of main before any is bound.
MainLocals ==
    [command |-> "", code |-> "", name |-> VNone, version |-> VNone, build |-> VNone,
     latest |-> FALSE, kwargs |-> EmptyMap, url |-> "", releases |-> VNone,
     items |-> <<>>, i |-> 0, match |-> FALSE, get_first_match |-> FALSE,
     release |-> VNone, download_url |-> VNone, checksum_url |-> VNone, dest |-> VNone,
     filename |-> "", data |-> <<>>, checksum_value |-> "", valid |-> FALSE]

\* The locals of download, read and validate before any is bound.
NoFrame == [url |-> "", output_file |-> "", pos |-> 0, h |-> <<>>]

\* open(path, 'wb'): the file is created, or emptied when it exists
Truncate(files, path) ==
    [q \in DOMAIN files \cup {path} |-> IF q = path THEN <<>> ELSE files[q]]

\* fo.write(data)
WriteTo(files, path, data) == [files EXCEPT ![path] = @ \o data]

\* An exception nothing catches ends the run.
Fail(e) == pc' = "failed" /\ uncaught' = e

\* main returns code
Exit(code) == pc' = "done" /\ rc' = VInt(code)

\* print(text) and print(text, file=sys.stderr)
PrintOut(text) == stdout' = Append(stdout, text)
PrintErr(text) == stderr' = Append(stderr, text)

\* lines 246-249: the module-level latest
LatestWanted ==
    \/ args["command"].s \in {"version", "build"}
    \/ /\ args["command"].s \in SelectCommands
       /\ args["version"] = VNone
       /\ args["build"] = VNone

ComputeLatest ==
    /\ pc = "parsed"
    /\ latest' = LatestWanted
    /\ pc' = "call_main"
    /\ UNCHANGED <<args, m, d, fs, open, reqs, stdout, stderr, rc, uncaught, net, giVars, wnVars>>

\* line 251, main(**vars(args)), and lines 137-145: the parameters are bound
\* from the keys of vars(args), the rest of the keys go to kwargs, and the
\* query URL is built.
CallMain ==
    /\ pc = "call_main"
    /\ LET code == Upper(args["code"].s)
           isLatest == IF "latest" \in DOMAIN args THEN Truthy(args["latest"]) ELSE FALSE
       IN  m' = [MainLocals EXCEPT
                    !.command = args["command"].s,
                    !.code = code,
                    !.name = MapGet(args, "name", VNone),
                    !.version = MapGet(args, "version", VNone),
                    !.build = MapGet(args, "build", VNone),
                    !.latest = isLatest,
                    !.kwargs = [k \in DOMAIN args \ MainParams |-> args[k]],
                    !.url = JETBRAINS_BASE_URL \o "?"
                            \o UrlEncode(Upper(code), "release",
                                         IF isLatest THEN "true" ELSE "false")]
    /\ pc' = "meta_open"
    /\ UNCHANGED <<args, latest, d, fs, open, reqs, stdout, stderr, rc, uncaught, net, giVars, wnVars>>

\* line 147: urllib.request.urlopen(url)
MetaOpen ==
    /\ pc = "meta_open"
    /\ reqs' = Append(reqs, m.url)
    /\ \/ /\ open' = open \cup {"urlfio"}
          /\ pc' = "meta_read"
          /\ UNCHANGED uncaught
       \/ /\ Fail("URLError")
          /\ UNCHANGED open
    /\ UNCHANGED <<args, latest, m, d, fs, stdout, stderr, rc, net, giVars, wnVars>>

\* line 148: json.loads(urlfio.read()), and the end of the with block
MetaRead ==
    /\ pc = "meta_read"
    /\ open' = open \ {"urlfio"}
    /\ \/ /\ net.meta.kind /= "invalid"
          /\ m' = [m EXCEPT !.releases = net.meta]
          /\ pc' = "dispatch"
          /\ UNCHANGED uncaught
       \/ /\ net.meta.kind = "invalid"
          /\ Fail("JSONDecodeError")
          /\ UNCHANGED m
       \/ /\ Fail("OSError")
          /\ UNCHANGED m
    /\ UNCHANGED <<args, latest, d, fs, reqs, stdout, stderr, rc, net, giVars, wnVars>>

\* lines 150, 153-156, 192: the branch on command; for the four selecting
\* commands, match and get_first_match are set and releases[code] is taken.
Dispatch ==
    /\ pc = "dispatch"
    /\ IF m.command \in {"version", "build"}
       THEN pc' = "print_field" /\ UNCHANGED <<m, rc, uncaught>>
       ELSE IF m.command \in SelectCommands
       THEN LET list == Subscript(m.releases, VStr(m.code)) IN
            IF list.tag = "raise" THEN Fail(list.exc) /\ UNCHANGED <<m, rc>>
            ELSE IF list.val.kind /= "list" THEN Fail("TypeError") /\ UNCHANGED <<m, rc>>
            ELSE /\ m' = [m EXCEPT !.match = FALSE,
                                   !.get_first_match = ~(Truthy(m.version) \/ Truthy(m.build)),
                                   !.items = list.val.l,
                                   !.i = 0]
                 /\ pc' = "for"
                 /\ UNCHANGED <<rc, uncaught>>
       ELSE IF m.command = "generate_whatsnew"
       THEN pc' = "generate_whatsnew" /\ UNCHANGED <<m, rc, uncaught>>
       ELSE Exit(0) /\ UNCHANGED <<m, uncaught>>
    /\ UNCHANGED <<args, latest, d, fs, open, reqs, stdout, stderr, net, giVars, wnVars>>

\* lines 151-152: print(releases[code][0].get(command, ''))
PrintField ==
    /\ pc = "print_field"
    /\ LET list == Subscript(m.releases, VStr(m.code))
           first == IF list.tag = "raise" THEN list ELSE Subscript(list.val, VInt(0))
       IN  IF first.tag = "raise"
           THEN Fail(first.exc) /\ UNCHANGED <<stdout, rc>>
           ELSE IF first.val.kind /= "dict"
           THEN Fail("AttributeError") /\ UNCHANGED <<stdout, rc>>
           ELSE /\ PrintOut(PyStr(DictGet(first.val, m.command, VStr(""))))
                /\ Exit(0)
                /\ UNCHANGED uncaught
    /\ UNCHANGED <<args, latest, m, d, fs, open, reqs, stderr, net, giVars, wnVars>>

\* line 157: get_first_match or (version and release['version'] == version)
\*           or (build and release['build'] == build), evaluated left to right
MatchCondAnyRelease(release, version, build, get_first_match) ==
    Return(VBool(TRUE))

MatchCond(release, version, build, get_first_match) ==
    IF get_first_match THEN Return(VBool(TRUE))
    ELSE LET v == IF Truthy(version) THEN Subscript(release, VStr("version"))
                  ELSE Return(VNone)
         IN  IF v.tag = "raise" THEN v
             ELSE IF Truthy(version) /\ v.val = version THEN Return(VBool(TRUE))
             ELSE LET b == IF Truthy(build) THEN Subscript(release, VStr("build"))
                           ELSE Return(VNone)
                  IN  IF b.tag = "raise" THEN b
                      ELSE Return(VBool(Truthy(build) /\ b.val = build))

\* lines 156-160 and 189-191: one turn of the for loop, or its else clause
ForRelease ==
    /\ pc = "for"
    /\ IF m.i >= Len(m.items)
       THEN /\ PrintErr("Could not find matching release")
            /\ Exit(1)
            /\ UNCHANGED <<m, uncaught>>
       ELSE LET release == m.items[m.i + 1]
                cond == MatchCond(release, m.version, m.build, m.get_first_match)
            IN  IF cond.tag = "raise"
                THEN Fail(cond.exc) /\ UNCHANGED <<m, rc, stderr>>
                ELSE LET match == m.match \/ cond.val.b IN
                     /\ m' = [m EXCEPT !.release = release, !.match = match,
                                       !.i = IF match THEN @ ELSE @ + 1]
                     /\ pc' = IF ~match THEN "for"
                              ELSE IF m.command \in {"download", "download_url"}
                              THEN "get_download_url"
                              ELSE "get_checksum_url"
                     /\ UNCHANGED <<rc, uncaught, stderr>>
    /\ UNCHANGED <<args, latest, d, fs, open, reqs, stdout, net, giVars, wnVars>>

LinkPath(name) == <<VStr("downloads"), VStr("linux"), VStr(name)>>

\* download() is entered: lines 93-94
EnterDownload(url, destination) ==
    d' = [NoFrame EXCEPT !.url = url,
                         !.output_file = PathJoin(destination, GetUrlFilename(url))]

\* lines 161-165, 174-175 and 188: the download URL of the matched release;
\* download_url prints it, download calls download(download_url, dest)
GetDownloadUrl ==
    /\ pc = "get_download_url"
    /\ LET r == GetItem(m.release, LinkPath("link"), RaiseException) IN
       IF r.tag = "raise"
       THEN Fail(r.exc) /\ UNCHANGED <<m, d, stdout, rc>>
       ELSE IF m.command = "download_url"
       THEN /\ m' = [m EXCEPT !.download_url = r.val]
            /\ PrintOut(PyStr(r.val))
            /\ Exit(0)
            /\ UNCHANGED <<d, uncaught>>
       ELSE LET dest == IF Truthy(MapGet(m.kwargs, "dest", VNone))
                        THEN MapGet(m.kwargs, "dest", VNone) ELSE VStr(".")
            IN  /\ m' = [m EXCEPT !.download_url = r.val, !.dest = dest]
                /\ EnterDownload(r.val.s, dest.s)
                /\ pc' = "dl_open_file"
                /\ UNCHANGED <<stdout, rc, uncaught>>
    /\ UNCHANGED <<args, latest, fs, open, reqs, stderr, net, giVars, wnVars>>

\* What urlopen(url) delivers.
BodyOf(url) == net.body[url]

\* The sizes urlfo.read(ChunkSize) may return with left bytes still to come:
\* nothing at the end of the stream; otherwise up to ChunkSize bytes, or one
\* byte fewer when the network delivers less than was asked for.
NetReadSizes(left) ==
    IF left = 0 THEN {0}
    ELSE LET full == IF left < ChunkSize THEN left ELSE ChunkSize
         IN  {full} \cup (IF full > 1 THEN {full - 1} ELSE {})

\* The size fi.read(ChunkSize) returns from a local file.
FileReadSize(left) == IF left < ChunkSize THEN left ELSE ChunkSize

\* The end of a with block, by completion or by exception: its handles close.
WithExitLeaksFile(handles) == open' = open \ (handles \ {"fo"})

WithExit(handles) == open' = open \ handles

\* line 96, first item: open(output_file, 'wb')
DlOpenFile ==
    /\ pc = "dl_open_file"
    /\ \/ /\ fs' = Truncate(fs, d.output_file)
          /\ open' = open \cup {"fo"}
          /\ pc' = "dl_open_url"
          /\ UNCHANGED uncaught
       \/ /\ Fail("OSError")
          /\ UNCHANGED <<fs, open>>
    /\ UNCHANGED <<args, latest, m, d, reqs, stdout, stderr, rc, net, giVars, wnVars>>

\* line 96, second item: urllib.request.urlopen(url), with fo already open
DlOpenUrl ==
    /\ pc = "dl_open_url"
    /\ reqs' = Append(reqs, d.url)
    /\ \/ /\ open' = open \cup {"urlfo"}
          /\ pc' = "dl_read"
          /\ UNCHANGED uncaught
       \/ /\ WithExit({"fo"})
          /\ Fail("URLError")
    /\ UNCHANGED <<args, latest, m, d, fs, stdout, stderr, rc, net, giVars, wnVars>>

\* What one turn of the loop of download appends to the file.
DlChunkSkipsFirstByte(body, pos, n) == SubSeq(body, pos + 2, pos + n)

DlChunk(body, pos, n) == SubSeq(body, pos + 1, pos + n)

\* lines 97-102: one turn of the loop: a read, then a write or the break
DlRead ==
    /\ pc = "dl_read"
    /\ \/ \E n \in NetReadSizes(Len(BodyOf(d.url)) - d.pos) :
            IF n = 0
            THEN /\ WithExit({"fo", "urlfo"})
                 /\ pc' = "dl_return"
                 /\ UNCHANGED <<d, fs, uncaught>>
            ELSE /\ fs' = WriteTo(fs, d.output_file, DlChunk(BodyOf(d.url), d.pos, n))
                 /\ d' = [d EXCEPT !.pos = @ + n]
                 /\ UNCHANGED <<pc, open, uncaught>>
       \/ /\ WithExit({"fo", "urlfo"})
          /\ Fail("OSError")
          /\ UNCHANGED <<d, fs>>
    /\ UNCHANGED <<args, latest, m, reqs, stdout, stderr, rc, net, giVars, wnVars>>

\* line 166: kwargs.get('skip_validation', False)
SkipValidationNever(kwargs) == FALSE

SkipValidation(kwargs) == Truthy(MapGet(kwargs, "skip_validation", VBool(FALSE)))

\* line 103, then lines 165-166 and 173 (download) or 181-182 (checksum)
DownloadReturn ==
    /\ pc = "dl_return"
    /\ IF m.command = "download" /\ ~SkipValidation(m.kwargs)
       THEN /\ m' = [m EXCEPT !.filename = d.output_file]
            /\ pc' = "get_checksum_url"
            /\ UNCHANGED <<stdout, rc>>
       ELSE /\ m' = [m EXCEPT !.filename = d.output_file]
            /\ PrintOut(d.output_file)
            /\ Exit(0)
    /\ UNCHANGED <<args, latest, d, fs, open, reqs, stderr, uncaught, net, giVars, wnVars>>

\* read() is entered
EnterRead(url) == d' = [NoFrame EXCEPT !.url = url]

\* line 167 (download), lines 177-181 and 186-188 (checksum, checksum_url):
\* the checksum URL of the matched release, and what is done with it
GetChecksumUrl ==
    /\ pc = "get_checksum_url"
    /\ LET r == GetItem(m.release, LinkPath("checksumLink"), RaiseException)
           dest == MapGet(m.kwargs, "dest", VNone)
       IN  IF r.tag = "raise"
           THEN Fail(r.exc) /\ UNCHANGED <<m, d, stdout, rc>>
           ELSE IF m.command = "checksum_url"
           THEN /\ m' = [m EXCEPT !.checksum_url = r.val]
                /\ PrintOut(PyStr(r.val))
                /\ Exit(0)
                /\ UNCHANGED <<d, uncaught>>
           ELSE IF m.command = "checksum" /\ Truthy(dest)
           THEN /\ m' = [m EXCEPT !.checksum_url = r.val, !.dest = dest]
                /\ EnterDownload(r.val.s, dest.s)
                /\ pc' = "dl_open_file"
                /\ UNCHANGED <<stdout, rc, uncaught>>
           ELSE /\ m' = [m EXCEPT !.checksum_url = r.val,
                                  !.dest = IF m.command = "checksum" THEN dest ELSE @]
                /\ EnterRead(r.val.s)
                /\ pc' = "rd_open"
                /\ UNCHANGED <<stdout, rc, uncaught>>
    /\ UNCHANGED <<args, latest, fs, open, reqs, stderr, net, giVars, wnVars>>

\* line 106: urllib.request.urlopen(url)
RdOpen ==
    /\ pc = "rd_open"
    /\ reqs' = Append(reqs, d.url)
    /\ \/ /\ open' = open \cup {"urlfo"}
          /\ pc' = "rd_read"
          /\ UNCHANGED uncaught
       \/ /\ Fail("URLError")
          /\ UNCHANGED open
    /\ UNCHANGED <<args, latest, m, d, fs, stdout, stderr, rc, net, giVars, wnVars>>

\* line 107: return urlfo.read(), and the end of the with block
RdRead ==
    /\ pc = "rd_read"
    /\ WithExit({"urlfo"})
    /\ \/ /\ m' = [m EXCEPT !.data = BodyOf(d.url)]
          /\ pc' = "rd_return"
          /\ UNCHANGED uncaught
       \/ /\ Fail("OSError")
          /\ UNCHANGED m
    /\ UNCHANGED <<args, latest, d, fs, reqs, stdout, stderr, rc, net, giVars, wnVars>>

\* line 169 (download): checksum_value = data.decode().strip().split()[0], and
\* validate(filename, checksum_value) is entered (line 110);
\* line 185 (checksum): print(data.decode().strip())
ReadReturn ==
    /\ pc = "rd_return"
    /\ LET text == Decode(m.data) IN
       IF text.tag = "raise"
       THEN Fail(text.exc) /\ UNCHANGED <<m, d, stdout, rc>>
       ELSE IF m.command = "checksum"
       THEN /\ PrintOut(Strip(text.val))
            /\ Exit(0)
            /\ UNCHANGED <<m, d, uncaught>>
       ELSE LET token == FirstToken(Strip(text.val)) IN
            IF token.tag = "raise"
            THEN Fail(token.exc) /\ UNCHANGED <<m, d, stdout, rc>>
            ELSE /\ m' = [m EXCEPT !.checksum_value = token.val]
                 /\ d' = [NoFrame EXCEPT !.output_file = m.filename, !.h = Sha256New]
                 /\ pc' = "v_open"
                 /\ UNCHANGED <<stdout, rc, uncaught>>
    /\ UNCHANGED <<args, latest, fs, open, reqs, stderr, net, giVars, wnVars>>

\* line 112: open(filename, 'rb')
VOpen ==
    /\ pc = "v_open"
    /\ \/ /\ open' = open \cup {"fi"}
          /\ pc' = "v_read"
          /\ UNCHANGED uncaught
       \/ /\ Fail("OSError")
          /\ UNCHANGED open
    /\ UNCHANGED <<args, latest, m, d, fs, reqs, stdout, stderr, rc, net, giVars, wnVars>>

\* line 119: checksum_value == h.hexdigest()
DigestMatchesIgnoringCase(checksum_value, h) == Upper(checksum_value) = Upper(Sha256HexDigest(h))

DigestMatches(checksum_value, h) == checksum_value = Sha256HexDigest(h)

\* lines 113-119: one turn of the loop of validate: a read, then an update of
\* the digest or the break and the comparison
VRead ==
    /\ pc = "v_read"
    /\ \/ LET file == fs[d.output_file]
              n == FileReadSize(Len(file) - d.pos)
          IN  IF n = 0
              THEN /\ WithExit({"fi"})
                   /\ m' = [m EXCEPT !.valid = DigestMatches(m.checksum_value, d.h)]
                   /\ pc' = "validated"
                   /\ UNCHANGED <<d, uncaught>>
              ELSE /\ d' = [d EXCEPT !.h = Sha256Update(@, SubSeq(file, d.pos + 1, d.pos + n)),
                                     !.pos = @ + n]
                   /\ UNCHANGED <<pc, open, m, uncaught>>
       \/ /\ WithExit({"fi"})
          /\ Fail("OSError")
          /\ UNCHANGED <<m, d>>
    /\ UNCHANGED <<args, latest, fs, reqs, stdout, stderr, rc, net, giVars, wnVars>>

\* What main does with the result of validate.
ValidationOutcomeIgnored(valid) == TRUE

ValidationOutcome(valid) == valid

\* lines 170-173: the failure is reported and 2 returned, or the file name printed
CheckValidation ==
    /\ pc = "validated"
    /\ IF ~ValidationOutcome(m.valid)
       THEN /\ PrintErr("Checksum validation failed")
            /\ Exit(2)
            /\ UNCHANGED stdout
       ELSE /\ PrintOut(m.filename)
            /\ Exit(0)
            /\ UNCHANGED stderr
    /\ UNCHANGED <<args, latest, m, d, fs, open, reqs, uncaught, net, giVars, wnVars>>

\* lines 193-195: the page is rendered for kwargs.get('name') and printed
GenerateWhatsnewCommand ==
    /\ pc = "generate_whatsnew"
    /\ LET product_name == MapGet(m.kwargs, "name", VNone)
           list == Subscript(m.releases, VStr(m.code))
           output == IF list.tag = "raise" THEN list
                     ELSE IF list.val.kind /= "list" THEN Raise("TypeError")
                     ELSE GenerateWhatsnew(product_name, list.val.l)
       IN  IF output.tag = "raise"
           THEN Fail(output.exc) /\ UNCHANGED <<stdout, rc>>
           ELSE /\ PrintOut(output.val.s)
                /\ Exit(0)
                /\ UNCHANGED uncaught
    /\ UNCHANGED <<args, latest, m, d, fs, open, reqs, stderr, net, giVars, wnVars>>

(***************************************************************************)
(* The inputs of a run: the command line and the remote side               *)
(***************************************************************************)
MaxReleases == 2
MaxBody == 2
MaxChunks == 2

Link(version, build) ==
    "https://download.jetbrains.com/idea/ideaIC-" \o version \o "-" \o build \o ".tar.gz"

ChecksumLink(version, build) == Link(version, build) \o ".sha256"

\* A release record of the API; one without a linux download carries a
\* windows download only.
Release(version, build, linux) ==
    VDict([k \in {"version", "build", "date", "notesLink", "whatsnew", "downloads"} |->
        CASE k = "version" -> VStr(version)
          [] k = "build" -> VStr(build)
          [] k = "date" -> VStr("2023-07-26")
          [] k = "notesLink" -> VStr("https://example.org/notes/" \o version)
          [] k = "whatsnew" -> VStr(IF linux THEN "<p>New in " \o version \o "</p>" ELSE " ")
          [] k = "downloads" ->
                VDict([os \in {IF linux THEN "linux" ELSE "windows"} |->
                    VDict([j \in {"link", "checksumLink"} |->
                        IF j = "link" THEN VStr(Link(version, build))
                        ELSE VStr(ChecksumLink(version, build))])])])

ReleaseSet ==
    { Release("2023.1", "231.8", TRUE),
      Release("2023.2", "232.9", TRUE),
      \* the version of the first, the build of the second
      Release("2023.1", "232.9", TRUE),
      Release("2023.3", "233.1", FALSE) }

ReleaseLists == UNION {[1..n -> ReleaseSet] : n \in 0..MaxReleases}

\* The decoded metadata document: the product code mapped to its releases, a
\* document without the product code, or a body that is not JSON.
MetaDocs ==
    {VDict([k \in {"IC"} |-> VList(l)]) : l \in ReleaseLists}
        \cup {VDict(EmptyMap), [kind |-> "invalid"]}

ArtifactUrls == {r.d["downloads"].d["linux"].d["link"].s :
                    r \in {x \in ReleaseSet : "linux" \in DOMAIN x.d["downloads"].d}}

ChecksumUrls == {r.d["downloads"].d["linux"].d["checksumLink"].s :
                    r \in {x \in ReleaseSet : "linux" \in DOMAIN x.d["downloads"].d}}

\* n bytes, no two neighbours alike
Body(n) == [i \in 1..n |-> (i * 37 + 134) % 256]

\* The remote side: every artifact URL delivers artifact, every checksum URL
\* delivers checksum.
Net(meta, artifact, checksum) ==
    [meta |-> meta,
     body |-> [u \in ArtifactUrls \cup ChecksumUrls |->
                    IF u \in ChecksumUrls THEN checksum ELSE artifact]]

\* Checksum resources for an artifact: the right digest, the right digest in
\* upper case, a wrong digest, a blank line, bytes that are not UTF-8.
ChecksumOf(artifact) == Encode(Sha256HexDigest(artifact) \o " *ideaIC.tar.gz\n")
ChecksumUpperCase(artifact) == Encode(Upper(Sha256HexDigest(artifact)) \o " *ideaIC.tar.gz\n")
ChecksumWrong(artifact) == Encode(Sha256HexDigest(artifact \o <<0>>) \o " *ideaIC.tar.gz\n")

ChecksumBodies ==
    { ChecksumOf(Body(MaxBody)), ChecksumUpperCase(Body(MaxBody)), Encode(" \n"), <<255>> }

\* The bodies of resources a command never requests are immaterial.
NetsFor(command) ==
    { Net(meta, artifact, checksum) :
        meta \in MetaDocs,
        artifact \in IF command = "download" THEN {Body(0), Body(MaxBody)} ELSE {Body(0)},
        checksum \in IF command \in {"download", "checksum"} THEN ChecksumBodies
                     ELSE {Encode(" \n")} }

Codes == {"ic"}
VersionOpts == {VNone, VStr(""), VStr("2023.1"), VStr("2023.2"), VStr("2099.1")}
BuildOpts == {VNone, VStr("232.9"), VStr("0")}
DestOpts == {VNone, VStr("out")}
Names == {VStr("IDEA")}

\* -v and -b are mutually exclusive
VersionBuild == {vb \in VersionOpts \X BuildOpts : vb[1] = VNone \/ vb[2] = VNone}

\* vars(args) as each subparser fills it
ArgsSet ==
    {[command |-> VStr(c), code |-> VStr(code)] :
        c \in {"version", "build"}, code \in Codes}
    \cup {[command |-> VStr("download"), code |-> VStr(code), dest |-> dest,
           skip_validation |-> VBool(skip), version |-> vb[1], build |-> vb[2]] :
        code \in Codes, dest \in DestOpts, skip \in BOOLEAN, vb \in VersionBuild}
    \cup {[command |-> VStr(c), code |-> VStr(code), version |-> vb[1], build |-> vb[2]] :
        c \in {"download_url", "checksum_url"}, code \in Codes, vb \in VersionBuild}
    \cup {[command |-> VStr("checksum"), code |-> VStr(code), dest |-> dest,
           version |-> vb[1], build |-> vb[2]] :
        code \in Codes, dest \in DestOpts, vb \in VersionBuild}
    \cup {[command |-> VStr("generate_whatsnew"), name |-> name, code |-> VStr(code)] :
        name \in Names, code \in Codes}

NoFiles == [q \in {} |-> <<>>]

\* The disk before the run: empty, or holding an older file where the first
\* release's installer will be written.
StartFiles == {NoFiles, [q \in {"./" \o GetUrlFilename(Link("2023.1", "231.8"))} |-> <<7, 7, 7>>]}

RunStarts ==
    /\ pc = "parsed"
    /\ latest = FALSE
    /\ m = MainLocals
    /\ d = NoFrame
    /\ open = {}
    /\ reqs = <<>>
    /\ stdout = <<>>
    /\ stderr = <<>>
    /\ rc = VNone
    /\ uncaught = ""

Init ==
    /\ IdleGetItem
    /\ IdleWhatsnew
    /\ RunStarts
    /\ args \in ArgsSet
    /\ net \in NetsFor(args["command"].s)
    /\ fs \in IF args["command"].s = "download" THEN StartFiles ELSE {NoFiles}

Next ==
    \/ ComputeLatest
    \/ CallMain
    \/ MetaOpen
    \/ MetaRead
    \/ Dispatch
    \/ PrintField
    \/ ForRelease
    \/ GetDownloadUrl
    \/ DlOpenFile
    \/ DlOpenUrl
    \/ DlRead
    \/ DownloadReturn
    \/ GetChecksumUrl
    \/ RdOpen
    \/ RdRead
    \/ ReadReturn
    \/ VOpen
    \/ VRead
    \/ CheckValidation
    \/ GenerateWhatsnewCommand

Spec == Init /\ [][Next]_vars

(***************************************************************************)
(* download and validate on streams of every shape: a download run of the  *)
(* first release, validation on, against installers whose length is zero,  *)
(* around one chunk, and around each further multiple of the chunk size.   *)
(***************************************************************************)
TransferLengths ==
    {n \in {k * ChunkSize + e : k \in 0..MaxChunks, e \in {-1, 0, 1}} : n >= 0}

InitTransfer ==
    /\ IdleGetItem
    /\ IdleWhatsnew
    /\ RunStarts
    /\ args = [command |-> VStr("download"), code |-> VStr("ic"), dest |-> VNone,
               skip_validation |-> VBool(FALSE), version |-> VNone, build |-> VNone]
    /\ \E n \in TransferLengths :
         net \in { Net(VDict([k \in {"IC"} |-> VList(<<Release("2023.1", "231.8", TRUE)>>)]),
                       Body(n), checksum) :
                   checksum \in {ChecksumOf(Body(n)), ChecksumUpperCase(Body(n)),
                                 ChecksumWrong(Body(n))} }
    /\ fs \in StartFiles

NextTransfer ==
    \/ ComputeLatest
    \/ CallMain
    \/ MetaOpen
    \/ MetaRead
    \/ Dispatch
    \/ ForRelease
    \/ GetDownloadUrl
    \/ DlOpenFile
    \/ DlOpenUrl
    \/ DlRead
    \/ DownloadReturn
    \/ GetChecksumUrl
    \/ RdOpen
    \/ RdRead
    \/ ReadReturn
    \/ VOpen
    \/ VRead
    \/ CheckValidation

SpecTransfer == InitTransfer /\ [][NextTransfer]_vars

\* p occurs in s at position i
OccursAt(s, p, i) == i >= 1 /\ i + Len(p) - 1 <= Len(s) /\ SubSeq(s, i, i + Len(p) - 1) = p

Occurrences(s, p) == {i \in 1..Len(s) : OccursAt(s, p, i)}

Contains(s, p) == Occurrences(s, p) /= {}

\* the k-th smallest member of a set of numbers
Nth(S, k) == CHOOSE x \in S : Cardinality({y \in S : y < x}) = k - 1

(***************************************************************************)
(* What the claims about a run speak of, read off the command line and the *)
(* remote side                                                             *)
(***************************************************************************)
Command == args["command"].s

Ended == pc = "done"

\* The product's list of releases, when the metadata document holds one.
HasList ==
    /\ net.meta.kind = "dict"
    /\ Upper(args["code"].s) \in DOMAIN net.meta.d
    /\ net.meta.d[Upper(args["code"].s)].kind = "list"

RunList == net.meta.d[Upper(args["code"].s)].l

\* -v or -b counts as given when it carries a value (an empty value is no
\* value: main tests "version or build").
VersionGiven == args["version"] /= VNone /\ args["version"].s /= ""
BuildGiven == args["build"] /= VNone /\ args["build"].s /= ""

IsRequested(r) ==
    \/ VersionGiven /\ r.d["version"] = args["version"]
    \/ BuildGiven /\ r.d["build"] = args["build"]

\* The place in the list of the release a selecting command is to act on, 0
\* when there is none.
Selected ==
    IF ~VersionGiven /\ ~BuildGiven THEN (IF RunList = <<>> THEN 0 ELSE 1)
    ELSE LET hits == {i \in 1..Len(RunList) : IsRequested(RunList[i])}
         IN  IF hits = {} THEN 0 ELSE CHOOSE i \in hits : \A j \in hits : i <= j

SelectedLink(name) == RunList[Selected].d["downloads"].d["linux"].d[name].s

ValidationOn == Command = "download" /\ args["skip_validation"] = VBool(FALSE)

\* The token of the checksum resource differs from the digest of the file on disk.
ComparisonFailed == m.checksum_value /= Sha256HexDigest(fs[m.filename])

EndsWith(s, suffix) == OccursAt(s, suffix, Len(s) - Len(suffix) + 1)

\* The requests made for artifacts and for checksum resources.
ArtifactRequests == {i \in 1..Len(reqs) : reqs[i] \in ArtifactUrls}
ChecksumRequests == {i \in 1..Len(reqs) : reqs[i] \in ChecksumUrls}
MetadataRequests == {i \in 1..Len(reqs) : reqs[i] \notin ArtifactUrls \cup ChecksumUrls}

(***************************************************************************)
(* C1 -- the exit status                                                   *)
(***************************************************************************)
NoMatch == Command \in SelectCommands /\ Selected = 0

ChecksumMismatch == ValidationOn /\ Selected /= 0 /\ ComparisonFailed

\* C1: a run that ends without an uncaught error returns 1 exactly when a
\* selecting command finds no matching release (and then says so on the
\* error stream), 2 exactly when a download with validation on found a
\* release and the checksum comparison failed, 0 in every other case.
C1_ExitStatus ==
    Ended =>
        /\ rc = VInt(1) <=> NoMatch
        /\ NoMatch => stderr = <<"Could not find matching release">>
        /\ rc = VInt(2) <=> ChecksumMismatch
        /\ (~NoMatch /\ ~ChecksumMismatch) => rc = VInt(0)

\* A version is asked for that the non-empty list does not hold.
C1_Witness ==
    /\ Ended
    /\ rc = VInt(1)
    /\ Command = "checksum"
    /\ VersionGiven
    /\ Len(RunList) = 2

(***************************************************************************)
(* C2 -- the one release a selecting command acts on                       *)
(***************************************************************************)
AfterMatch ==
    pc \in {"get_download_url", "get_checksum_url", "dl_open_file", "dl_open_url", "dl_read",
            "dl_return", "rd_open", "rd_read", "rd_return", "v_open", "v_read", "validated"}

\* C2: the release acted on is the first of the list when neither version
\* nor build is given, otherwise the first whose version or build is the one
\* asked for; every URL requested or printed is a link of that release, and
\* without such a release nothing is requested or printed.
C2_OneReleaseActedOn ==
    (Command \in SelectCommands /\ HasList /\ pc \notin {"parsed", "call_main", "meta_open", "meta_read"}) =>
        /\ AfterMatch => Selected /= 0 /\ m.release = RunList[Selected]
        /\ Selected = 0 => Len(reqs) = 1 /\ stdout = <<>>
        /\ \A i \in ArtifactRequests : reqs[i] = SelectedLink("link")
        /\ \A i \in ChecksumRequests : reqs[i] = SelectedLink("checksumLink")
        /\ (Ended /\ rc = VInt(0)) =>
              CASE Command = "download_url" -> stdout = <<SelectedLink("link")>>
                [] Command = "checksum_url" -> stdout = <<SelectedLink("checksumLink")>>
                [] Command = "download" ->
                      /\ ArtifactRequests /= {}
                      /\ stdout = <<PathJoin(m.dest.s, GetUrlFilename(SelectedLink("link")))>>
                [] Command = "checksum" -> ChecksumRequests /= {}

\* The build asked for is that of the second release of the list, whose URL is printed.
C2_Witness ==
    /\ Command = "download_url"
    /\ Ended
    /\ BuildGiven
    /\ Selected = 2
    /\ stdout = <<SelectedLink("link")>>

(***************************************************************************)
(* C4 -- the product name of the page (the claim, which the code breaks)   *)
(***************************************************************************)
\* C4: the page generate_whatsnew prints carries the name given with
\* -n/--name in its title and in its heading.
C4_NameInPage ==
    (Command = "generate_whatsnew" /\ Ended) =>
        /\ Contains(stdout[1], "<title>" \o args["name"].s \o " - What's New</title>")
        /\ Contains(stdout[1], "<h1>What's New in " \o args["name"].s \o "</h1>")

(***************************************************************************)
(* C9 -- the latest parameter of the query (the claim, which the code      *)
(* breaks)                                                                 *)
(***************************************************************************)
\* C9: the metadata request asks for latest=true exactly when the command is
\* version or build, or a selecting command given neither -v nor -b, and for
\* latest=false otherwise.
C9_LatestInQuery ==
    reqs /= <<>> =>
        /\ LatestWanted => EndsWith(reqs[1], "&latest=true")
        /\ ~LatestWanted => EndsWith(reqs[1], "&latest=false")

(***************************************************************************)
(* C5 -- a failed validation                                               *)
(***************************************************************************)
\* C5: with validation on, the file name is printed only once the checksum
\* comparison has succeeded; when it fails the run reports it on the error
\* stream, returns 2, prints no file name and leaves the downloaded file on
\* disk with the bytes that were downloaded.
C5_FailedValidation ==
    ValidationOn =>
        /\ stdout /= <<>> => (pc = "done" /\ ~ComparisonFailed /\ d.h = fs[m.filename])
        /\ (Ended /\ Selected /= 0 /\ ComparisonFailed) =>
              /\ stderr = <<"Checksum validation failed">>
              /\ rc = VInt(2)
              /\ stdout = <<>>
              /\ m.filename \in DOMAIN fs
              /\ fs[m.filename] = BodyOf(SelectedLink("link"))

\* The installer is on disk, two bytes long, and its checksum did not match.
C5_Witness ==
    /\ ValidationOn
    /\ Ended
    /\ rc = VInt(2)
    /\ Len(fs[m.filename]) = MaxBody
    /\ stdout = <<>>

(***************************************************************************)
(* C6 -- the requests of a run                                             *)
(***************************************************************************)
Connections == {"urlfio", "urlfo"}

C7_HandlesClosed ==
    /\ "urlfio" \in open => pc = "meta_read"
    /\ "fo" \in open => pc \in {"dl_open_url", "dl_read"}
    /\ "urlfo" \in open => pc \in {"dl_read", "rd_read"}
    /\ "fi" \in open => pc = "v_read"
    /\ pc \in {"done", "failed"} => open = {}

\* download had opened (and emptied) the destination file when opening the
\* URL failed.
C7_Witness ==
    /\ pc = "failed"
    /\ uncaught = "URLError"
    /\ Command = "download"
    /\ Len(reqs) = 2
    /\ d.output_file \in DOMAIN fs
    /\ open = {}

(***************************************************************************)
(* C10 -- the bytes download writes and validate digests                   *)
(***************************************************************************)
\* C10: while download runs the file holds the bytes delivered so far, and
\* when it returns the file holds the whole stream, in order; validate has
\* fed the digest the bytes of the file read so far, the whole file when it
\* compares, and its result is true exactly when the token is, character for
\* character, the hex digest of the file.
C10_BytesTransferred ==
    /\ pc = "dl_read" =>
          /\ d.pos <= Len(BodyOf(d.url))
          /\ fs[d.output_file] = SubSeq(BodyOf(d.url), 1, d.pos)
    /\ pc = "dl_return" =>
          /\ d.pos = Len(BodyOf(d.url))
          /\ fs[d.output_file] = BodyOf(d.url)
    /\ pc = "v_read" => d.h = SubSeq(fs[d.output_file], 1, d.pos)
    /\ pc = "validated" =>
          /\ d.h = fs[m.filename]
          /\ fs[m.filename] = BodyOf(m.download_url.s)
          /\ m.valid <=> (m.checksum_value = Sha256HexDigest(BodyOf(m.download_url.s)))

\* An installer of exactly two chunks was downloaded and validated.
C10_Witness ==
    /\ pc = "validated"
    /\ Len(fs[m.filename]) = 2 * ChunkSize
    /\ m.valid

(***************************************************************************)
(* C3 -- get_item against the reference lookup                             *)
(***************************************************************************)
\* The reference: the value after each prefix of the path, or how the path
\* stopped resolving: "missing" (a key the mapping lacks, an index out of
\* range) or "unlookable" (the value reached has no such lookup at all).
RefStep(st, key) ==
    IF st.at /= "value" THEN st
    ELSE LET v == st.val IN
         CASE v.kind = "dict" ->
                IF key.kind = "str" /\ key.s \in DOMAIN v.d
                THEN [at |-> "value", val |-> v.d[key.s]]
                ELSE [at |-> "missing"]
           [] v.kind \in {"list", "str"} ->
                IF key.kind /= "int" THEN [at |-> "unlookable"]
                ELSE LET n == IF v.kind = "list" THEN Len(v.l) ELSE Len(v.s)
                         i == IF key.n < 0 THEN n + key.n ELSE key.n
                     IN  IF i < 0 \/ i >= n THEN [at |-> "missing"]
                         ELSE [at |-> "value",
                               val |-> IF v.kind = "list" THEN v.l[i + 1]
                                       ELSE VStr(SubSeq(v.s, i + 1, i + 1))]
           [] OTHER -> [at |-> "unlookable"]

RefWalk(obj, keys) ==
    LET f[i \in 0..Len(keys)] ==
            IF i = 0 THEN [at |-> "value", val |-> obj] ELSE RefStep(f[i - 1], keys[i])
    IN  f[Len(keys)]

GiCalled == gi_result /= Pending /\ IsMappingOrSequence(gi_obj)

\* C3 as stated: every unresolved step, a path continuing past a value that
\* cannot be looked into included, is answered by a supplied default.
C3_AsStated ==
    GiCalled =>
        LET w == RefWalk(gi_obj, gi_keys) IN
        /\ w.at = "value" => gi_result = Return(w.val)
        /\ (w.at /= "value" /\ gi_default /= RaiseException) => gi_result = Return(gi_default)
        /\ (w.at /= "value" /\ gi_default = RaiseException) => gi_result.tag = "raise"

\* C3 amended: a resolved path returns the value reached whatever the default;
\* a missing key or out-of-range index returns the supplied default (None
\* included) and raises KeyError/IndexError without one; a step into a value
\* that has no such lookup raises TypeError whether or not a default is given.
C3_GetItemReference ==
    GiCalled =>
        LET w == RefWalk(gi_obj, gi_keys) IN
        /\ w.at = "value" => gi_result = Return(w.val)
        /\ (w.at = "missing" /\ gi_default /= RaiseException) => gi_result = Return(gi_default)
        /\ (w.at = "missing" /\ gi_default = RaiseException) =>
                gi_result.tag = "raise" /\ gi_result.exc \in {"KeyError", "IndexError"}
        /\ w.at = "unlookable" => gi_result = Raise("TypeError")

\* A default of None answers a missing key two levels down.
C3_Witness ==
    /\ GiCalled
    /\ Len(gi_keys) = 2
    /\ RefWalk(gi_obj, gi_keys).at = "missing"
    /\ gi_default = VNone
    /\ gi_result = Return(VNone)

(***************************************************************************)
(* C8 -- the page generate_whatsnew renders                                *)
(***************************************************************************)
WnComplete(r) == {"version", "build", "date", "notesLink"} \subseteq DOMAIN r.d

\* absent (no key, or null), empty, or nothing but whitespace
WnNotesBlank(r) ==
    \/ "whatsnew" \notin DOMAIN r.d
    \/ r.d["whatsnew"] = VNone
    \/ \A i \in 1..Len(r.d["whatsnew"].s) :
            SubSeq(r.d["whatsnew"].s, i, i) \in PyWhitespace

WnCalled == wn_out /= Pending /\ \A i \in 1..Len(wn_releases) : WnComplete(wn_releases[i])

\* The content of the page: what lies between the heading and "\n</body>".
WnContent(page) ==
    LET from == Nth(Occurrences(page, "</h1>\n"), 1) + 6
        to == Nth(Occurrences(page, "\n</body>"), 1) - 1
    IN  SubSeq(page, from, to)

\* The k-th entry of the content: from the k-th "<article>" up to the next one.
WnEntryText(content, k) ==
    LET starts == Occurrences(content, "<article>")
        from == Nth(starts, k)
        to == IF k = Cardinality(starts) THEN Len(content) ELSE Nth(starts, k + 1) - 1
    IN  SubSeq(content, from, to)

\* C8: one <article> entry per release, in input order, nothing before, between
\* or after them; each entry anchored by its own release's version; the
\* placeholder exactly for blank notes, the release's own notes otherwise; an
\* empty list gives empty content.
C8_WhatsnewEntries ==
    WnCalled =>
        /\ wn_out.tag = "return"
        /\ LET content == WnContent(wn_out.val.s)
               starts == Occurrences(content, "<article>")
               n == Len(wn_releases)
           IN  /\ Cardinality(starts) = n
               /\ Cardinality(Occurrences(content, "</article>\n")) = n
               /\ n = 0 => content = ""
               /\ n > 0 => Nth(starts, 1) = 1
               /\ \A k \in 1..n :
                    LET e == WnEntryText(content, k)
                        r == wn_releases[k]
                    IN  /\ OccursAt(e, "</article>\n", Len(e) - 10)
                        /\ Occurrences(e, " id=\"")
                             = Occurrences(e, " id=\"" \o r.d["version"].s \o "\">")
                        /\ Cardinality(Occurrences(e, " id=\"")) = 1
                        /\ WnNotesBlank(r) <=>
                             Contains(e, "<section>\n" \o WHATSNEW_EMPTY_NOTES \o "\n</section>")
                        /\ ~WnNotesBlank(r) =>
                             Contains(e, "<section>\n" \o r.d["whatsnew"].s \o "\n</section>")

\* Two releases rendered, the first with whitespace-only notes, the second
\* with notes of its own.
C8_Witness ==
    /\ WnCalled
    /\ Len(wn_releases) = 2
    /\ wn_out.tag = "return"
    /\ "whatsnew" \in DOMAIN wn_releases[1].d
    /\ wn_releases[1].d["whatsnew"] = VStr(" \n\t")
    /\ ~WnNotesBlank(wn_releases[2])
    /\ wn_releases[1] /= wn_releases[2]

====
